---- MODULE Spec2Model ----
(***************************************************************************)
(* Model of ReactServerStack's constructor                                 *)
(* (packages/react-server-adapter-aws/setup/cdk/cdk/lib/react-server-      *)
(* stack.ts).  The constructor is one linear routine; every construct it   *)
(* declares is one step, so that the contents of the stack at the moment   *)
(* of the quota error are a state of the model.                            *)
(***************************************************************************)
EXTENDS Integers, Sequences, FiniteSets, TLC

(* ---------------- bounds of the model ---------------- *)
\* entries of .aws-react-server/output/static
MaxEntries == 27
\* how many of the entries may be plain files (they sit at the even positions)
MaxFiles == 2
\* largest explicitly supplied maxBehaviors
MaxQuota == 2

(* ---------------- program constants ---------------- *)
DefaultMaxBehaviors == 25

(* ---------------- JavaScript values ---------------- *)
Undefined == [t |-> "undefined"]
Str(s) == [t |-> "string", v |-> s]
Num(n) == [t |-> "number", v |-> n]
Bool(b) == [t |-> "boolean", v |-> b]
Obj(o) == [t |-> "object", v |-> o]

\* ToBoolean: undefined, "", 0 and false are falsy, everything else truthy
Truthy(x) ==
  CASE x.t = "undefined" -> FALSE
    [] x.t = "string" -> Len(x.v) > 0
    [] x.t = "number" -> x.v # 0
    [] x.t = "boolean" -> x.v
    [] x.t = "object" -> TRUE

\* a ?? b
NullishCoalesce(a, b) == IF a.t = "undefined" THEN b ELSE a

\* s?.length
OptionalLength(s) == IF s.t = "undefined" THEN Undefined ELSE Num(Len(s.v))

\* `${x}` for a string or undefined
TemplateString(x) == IF x.t = "undefined" THEN "undefined" ELSE x.v

(* ---------------- inputs ---------------- *)
StackNames == {"ReactServer"}
Certificates == {Undefined, Str(""), Str("arn:aws:acm:cert"), Obj("certificate")}
HostedZones == {Undefined, Obj("hostedZone")}
SubDomains == {Undefined, Str(""), Str("www")}
DomainNames == {Undefined, Str(""), Str("example.com")}
MaxBehaviorsInputs == {Undefined} \cup {Num(n) : n \in 0..MaxQuota}

CustomStackProps ==
  [certificate : Certificates, hostedZone : HostedZones, subDomain : SubDomains,
   domainName : DomainNames, maxBehaviors : MaxBehaviorsInputs]

\* the positions of the listing where a plain file may sit
FileSlots == {2 * k : k \in 1..MaxFiles}

\* a listing of n entries, those at the positions in files being plain files
Listing(n, files) ==
  [i \in 1..n |-> [name |-> "d" \o ToString(i), isDirectory |-> i \notin files]]

\* tokens the framework resolves at deployment
DistributionDomainName == "d111111abcdef8.cloudfront.net"
DistributionId == "E2QWRUHAPOMQZL"

VARIABLES
  stackName,        \* this.stackName
  props,            \* props.customStackProps
  staticEntries,    \* entries of <output>/static on disk
  pc,               \* position in the constructor
  constructs,       \* ids of the constructs declared in the stack, in order
  distribution,     \* properties of the CloudFront distribution
  behaviors,        \* path patterns added with distribution.addBehavior
  cfS3directories,  \* result of getDirectories(staticDirectory)
  idx,              \* position of the for..of loop in cfS3directories
  aliasRecords,     \* properties of the declared route53.ARecord
  parameters,       \* declared ssm.StringParameter
  outputs,          \* declared cdk.CfnOutput
  error             \* the Error thrown by the constructor, if any

vars == <<stackName, props, staticEntries, pc, constructs, distribution,
          behaviors, cfS3directories, idx, aliasRecords, parameters, outputs,
          error>>

(* ---------------- constants computed from props (lines 32-54) ---------------- *)
distributionUrlParameterName(name) == "/" \o name \o "/distribution/url"

\* variant: any truthy certificate, a string included, is handed on
certificateAnyTruthy(p) ==
  IF Truthy(p.certificate) THEN p.certificate ELSE Undefined

certificate(p) ==
  IF Truthy(p.certificate) /\ p.certificate.t # "string"
    THEN p.certificate
    ELSE Undefined

hostedZone(p) == p.hostedZone
subDomain(p) == p.subDomain
domainName(p) == p.domainName

\* variant: the prefix is written whatever subDomain is
SubDomainPrefixAlways(p) == TemplateString(subDomain(p)) \o "."

\* subDomain?.length ?? 0 > 0   parses as   subDomain?.length ?? (0 > 0)
SubDomainPrefix(p) ==
  IF Truthy(NullishCoalesce(OptionalLength(subDomain(p)), Bool(0 > 0)))
    THEN TemplateString(subDomain(p)) \o "."
    ELSE ""

siteDomainName(p) ==
  IF Truthy(domainName(p))
    THEN Str(SubDomainPrefix(p) \o TemplateString(domainName(p)))
    ELSE Undefined

\* variant: maxBehaviors || 25
maxBehaviorsLogicalOr(p) ==
  IF Truthy(p.maxBehaviors) THEN p.maxBehaviors ELSE Num(DefaultMaxBehaviors)

maxBehaviors(p) == NullishCoalesce(p.maxBehaviors, Num(DefaultMaxBehaviors))

(* ---------------- helpers of the constructor ---------------- *)
\* variant: readdirSync(source) without the filter
getDirectoriesUnfiltered(entries) == [i \in 1..Len(entries) |-> entries[i].name]

\* readdirSync(source).filter(name => statSync(join(source, name)).isDirectory())
getDirectories(entries) ==
  LET dirs == SelectSeq(entries, LAMBDA e : e.isDirectory)
  IN [i \in 1..Len(dirs) |-> dirs[i].name]

\* variant: the default behaviour is allowed for, length > maxBehaviors + 1
QuotaExceededOffByOne(dirs, max) == Len(dirs) > max.v + 1

\* variant: length >= maxBehaviors
QuotaExceededInclusive(dirs, max) == Len(dirs) >= max.v

\* cfS3directories.length > maxBehaviors
QuotaExceeded(dirs, max) == Len(dirs) > max.v

PathPattern(directory) == "/" \o directory \o "/*"

\* variant: the custom domain is set only together with a subDomain
DomainNamesPropSubDomainOnly(p) ==
  IF Truthy(siteDomainName(p)) /\ Truthy(subDomain(p))
    THEN <<siteDomainName(p).v>>
    ELSE <<>>

DomainNamesProp(p) ==
  IF Truthy(siteDomainName(p)) THEN <<siteDomainName(p).v>> ELSE <<>>

\* variant: the record is declared only when a custom domain is configured too
AliasRecordWantedWithDomain(p) == Truthy(hostedZone(p)) /\ Truthy(siteDomainName(p))

\* hostedZone as the condition of the if statement
AliasRecordWanted(p) == Truthy(hostedZone(p))

\* variant: the parameter always holds the provider-assigned name
ParameterStringValueProvider(p) == DistributionDomainName

\* stringValue: siteDomainName ? siteDomainName! : distribution.distributionDomainName
ParameterStringValue(p) ==
  IF Truthy(siteDomainName(p)) THEN siteDomainName(p).v ELSE DistributionDomainName

\* variant: the output is built from domainName alone
OutputUrlValueDomainOnly(p) ==
  "https://" \o (IF Truthy(domainName(p)) THEN domainName(p).v
                                           ELSE DistributionDomainName)

\* `https://${siteDomainName ? siteDomainName : distribution.distributionDomainName}`
OutputUrlValue(p) ==
  "https://" \o (IF Truthy(siteDomainName(p)) THEN siteDomainName(p).v
                                               ELSE DistributionDomainName)

NoDistribution == [declared |-> FALSE, domainNames |-> <<>>, certificate |-> Undefined]

(* ---------------- the constructor ---------------- *)
Init ==
  /\ stackName \in StackNames
  /\ props \in CustomStackProps
  /\ \E n \in 0..MaxEntries, files \in SUBSET FileSlots :
       staticEntries = Listing(n, files)
  /\ pc = "bucket"
  /\ constructs = <<>>
  /\ distribution = NoDistribution
  /\ behaviors = <<>>
  /\ cfS3directories = <<>>
  /\ idx = 1
  /\ aliasRecords = <<>>
  /\ parameters = <<>>
  /\ outputs = <<>>
  /\ error = ""

\* new s3.Bucket(this, "StaticAssetsBucket", ...)
DeclareBucket ==
  /\ pc = "bucket"
  /\ constructs' = Append(constructs, "StaticAssetsBucket")
  /\ pc' = "function"
  /\ UNCHANGED <<stackName, props, staticEntries, distribution, behaviors,
                 cfS3directories, idx, aliasRecords, parameters, outputs, error>>

\* new lambda.Function(this, "RequestHandler", ...)
DeclareFunction ==
  /\ pc = "function"
  /\ constructs' = Append(constructs, "RequestHandler")
  /\ pc' = "httpApi"
  /\ UNCHANGED <<stackName, props, staticEntries, distribution, behaviors,
                 cfS3directories, idx, aliasRecords, parameters, outputs, error>>

\* new HttpLambdaIntegration(...); new api.HttpApi(this, "WebsiteApi", ...)
DeclareHttpApi ==
  /\ pc = "httpApi"
  /\ constructs' = Append(constructs, "WebsiteApi")
  /\ pc' = "distribution"
  /\ UNCHANGED <<stackName, props, staticEntries, distribution, behaviors,
                 cfS3directories, idx, aliasRecords, parameters, outputs, error>>

\* new cloudfront.Distribution(this, "CloudFront", { domainNames, certificate, ... })
DeclareDistribution ==
  /\ pc = "distribution"
  /\ constructs' = Append(constructs, "CloudFront")
  /\ distribution' = [declared |-> TRUE,
                      domainNames |-> DomainNamesProp(props),
                      certificate |-> certificate(props)]
  /\ pc' = "getDirectories"
  /\ UNCHANGED <<stackName, props, staticEntries, behaviors, cfS3directories,
                 idx, aliasRecords, parameters, outputs, error>>

\* const cfS3directories = getDirectories(staticDirectory)
GetDirectories ==
  /\ pc = "getDirectories"
  /\ cfS3directories' = getDirectories(staticEntries)
  /\ pc' = "checkQuota"
  /\ UNCHANGED <<stackName, props, staticEntries, constructs, distribution,
                 behaviors, idx, aliasRecords, parameters, outputs, error>>

\* if (cfS3directories.length > maxBehaviors) throw new Error(...)
CheckQuota ==
  /\ pc = "checkQuota"
  /\ IF QuotaExceeded(cfS3directories, maxBehaviors(props))
       THEN /\ pc' = "thrown"
            /\ error' = "CloudFront distributions can only have up to "
                          \o ToString(maxBehaviors(props).v) \o " behaviors."
       ELSE /\ pc' = "addBehavior"
            /\ error' = error
  /\ UNCHANGED <<stackName, props, staticEntries, constructs, distribution,
                 behaviors, cfS3directories, idx, aliasRecords, parameters,
                 outputs>>

\* for (const directory of cfS3directories) distribution.addBehavior(`/${directory}/*`, ...)
AddBehavior ==
  /\ pc = "addBehavior"
  /\ idx <= Len(cfS3directories)
  /\ behaviors' = Append(behaviors, PathPattern(cfS3directories[idx]))
  /\ idx' = idx + 1
  /\ UNCHANGED <<stackName, props, staticEntries, pc, constructs, distribution,
                 cfS3directories, aliasRecords, parameters, outputs, error>>

\* new s3deploy.BucketDeployment(this, "DeployStaticAssets", ...)
DeployStaticAssets ==
  /\ pc = "addBehavior"
  /\ idx > Len(cfS3directories)
  /\ constructs' = Append(constructs, "DeployStaticAssets")
  /\ pc' = "aliasRecord"
  /\ UNCHANGED <<stackName, props, staticEntries, distribution, behaviors,
                 cfS3directories, idx, aliasRecords, parameters, outputs, error>>

\* if (hostedZone) new route53.ARecord(this, "AliasRecord", ...)
DeclareAliasRecord ==
  /\ pc = "aliasRecord"
  /\ IF AliasRecordWanted(props)
       THEN /\ constructs' = Append(constructs, "AliasRecord")
            /\ aliasRecords' = Append(aliasRecords,
                 [zone |-> hostedZone(props).v,
                  target |-> "CloudFront",
                  recordName |-> NullishCoalesce(subDomain(props), Str("")).v])
       ELSE UNCHANGED <<constructs, aliasRecords>>
  /\ pc' = "parameter"
  /\ UNCHANGED <<stackName, props, staticEntries, distribution, behaviors,
                 cfS3directories, idx, parameters, outputs, error>>

\* new ssm.StringParameter(this, "DistributionUrlParameter", ...)
DeclareParameter ==
  /\ pc = "parameter"
  /\ constructs' = Append(constructs, "DistributionUrlParameter")
  /\ parameters' = Append(parameters,
       [parameterName |-> distributionUrlParameterName(stackName),
        stringValue |-> ParameterStringValue(props)])
  /\ pc' = "outputUrl"
  /\ UNCHANGED <<stackName, props, staticEntries, distribution, behaviors,
                 cfS3directories, idx, aliasRecords, outputs, error>>

\* new cdk.CfnOutput(this, "CloudFrontURL", ...)
DeclareOutputUrl ==
  /\ pc = "outputUrl"
  /\ constructs' = Append(constructs, "CloudFrontURL")
  /\ outputs' = Append(outputs,
       [id |-> "CloudFrontURL", value |-> OutputUrlValue(props)])
  /\ pc' = "outputId"
  /\ UNCHANGED <<stackName, props, staticEntries, distribution, behaviors,
                 cfS3directories, idx, aliasRecords, parameters, error>>

\* new cdk.CfnOutput(this, "CloudFrontID", ...)
DeclareOutputId ==
  /\ pc = "outputId"
  /\ constructs' = Append(constructs, "CloudFrontID")
  /\ outputs' = Append(outputs, [id |-> "CloudFrontID", value |-> DistributionId])
  /\ pc' = "done"
  /\ UNCHANGED <<stackName, props, staticEntries, distribution, behaviors,
                 cfS3directories, idx, aliasRecords, parameters, error>>

Next ==
  \/ DeclareBucket
  \/ DeclareFunction
  \/ DeclareHttpApi
  \/ DeclareDistribution
  \/ GetDirectories
  \/ CheckQuota
  \/ AddBehavior
  \/ DeployStaticAssets
  \/ DeclareAliasRecord
  \/ DeclareParameter
  \/ DeclareOutputUrl
  \/ DeclareOutputId

Spec == Init /\ [][Next]_vars

(* ---------------- vocabulary of the properties ---------------- *)
\* subdirectories of the static output directory, counted on the disk itself
NumSubdirectories ==
  Cardinality({i \in DOMAIN staticEntries : staticEntries[i].isDirectory})

\* the maximum the caller configured, read off the stack properties
ConfiguredMaximum ==
  IF props.maxBehaviors.t = "number" THEN props.maxBehaviors.v ELSE 25

\* the constructor is past the quota check without having thrown
Passed ==
  pc \in {"addBehavior", "aliasRecord", "parameter", "outputUrl", "outputId", "done"}

\* the for..of loop over cfS3directories is over
LoopFinished == pc \in {"aliasRecord", "parameter", "outputUrl", "outputId", "done"}

\* how often a construct id was declared
Declared(id) == Cardinality({i \in DOMAIN constructs : constructs[i] = id})

(* ---------------- C1 ---------------- *)
\* C1: when the number of subdirectories is at most the configured maximum
\* (equal included) the constructor does not throw and runs to its end, and
\* once the loop is over the distribution has exactly one added rule
\* '/<directory>/*' per subdirectory and none for an entry that is a file.
C1_OneRulePerDirectory ==
  NumSubdirectories <= ConfiguredMaximum =>
    /\ pc # "thrown" /\ error = ""
    /\ pc # "done" => ENABLED Next
    /\ LoopFinished =>
         /\ Len(behaviors) = NumSubdirectories
         /\ \A i \in DOMAIN staticEntries :
              LET pattern == "/" \o staticEntries[i].name \o "/*"
                  hits == {j \in DOMAIN behaviors : behaviors[j] = pattern}
              IN Cardinality(hits) = IF staticEntries[i].isDirectory THEN 1 ELSE 0

\* a completed declaration with as many subdirectories as the maximum, files beside them
C1_Witness ==
  /\ pc = "done"
  /\ NumSubdirectories = ConfiguredMaximum
  /\ NumSubdirectories > 0
  /\ Len(staticEntries) > NumSubdirectories
  /\ Len(behaviors) = NumSubdirectories

(* ---------------- C2 ---------------- *)
\* C2 as stated: at the moment of the throw nothing at all has been declared
\* in the stack.
C2_NothingDeclaredAtThrow ==
  pc = "thrown" =>
    /\ constructs = <<>>
    /\ ~distribution.declared
    /\ behaviors = <<>>
    /\ aliasRecords = <<>>
    /\ parameters = <<>>
    /\ outputs = <<>>

\* C2, amended: with more subdirectories than the configured maximum the
\* constructor never gets past the check, and at the moment of the throw no
\* routing rule, bucket deployment, alias record, parameter or output has
\* been declared, while the bucket, the function, the HTTP API and the
\* distribution have been.
C2_ThrowBeforeRoutingRules ==
  /\ NumSubdirectories > ConfiguredMaximum => ~Passed
  /\ pc = "thrown" =>
       /\ NumSubdirectories > ConfiguredMaximum
       /\ constructs = <<"StaticAssetsBucket", "RequestHandler", "WebsiteApi", "CloudFront">>
       /\ distribution.declared
       /\ behaviors = <<>>
       /\ aliasRecords = <<>>
       /\ parameters = <<>>
       /\ outputs = <<>>

\* the constructor has thrown on a listing with more subdirectories than allowed
C2_Witness ==
  /\ pc = "thrown"
  /\ NumSubdirectories > ConfiguredMaximum
  /\ Declared("CloudFront") = 1

(* ---------------- C3 ---------------- *)
\* C3: without a domainName (undefined or empty, whatever subDomain,
\* certificate and hostedZone are) the distribution-URL parameter and the
\* CloudFrontURL output both use the provider-assigned domain name of the
\* distribution; with a domainName both use the custom domain name that was
\* configured on the distribution.
C3_UrlFallsBackToProviderDomain ==
  LET host == IF Truthy(props.domainName)
                THEN IF Len(distribution.domainNames) = 1
                       THEN distribution.domainNames[1]
                       ELSE "no custom domain"
                ELSE DistributionDomainName
  IN /\ \A i \in DOMAIN parameters : parameters[i].stringValue = host
     /\ \A i \in DOMAIN outputs :
          outputs[i].id = "CloudFrontURL" => outputs[i].value = "https://" \o host

\* no domainName, everything else supplied, and the declaration is complete
C3_Witness ==
  /\ pc = "done"
  /\ props.domainName = Undefined
  /\ props.subDomain = Str("www")
  /\ props.hostedZone.t = "object"
  /\ props.certificate.t = "object"
  /\ parameters[1].stringValue = DistributionDomainName

(* ---------------- C4 ---------------- *)
\* C4: a completed declaration holds one alias record, targeting the
\* distribution in the supplied zone, when a hosted zone was supplied, and
\* none when it was not; never more than one.
C4_AliasRecordIffHostedZone ==
  pc = "done" =>
    /\ Len(aliasRecords) = IF props.hostedZone.t = "object" THEN 1 ELSE 0
    /\ Declared("AliasRecord") = Len(aliasRecords)
    /\ \A i \in DOMAIN aliasRecords :
         /\ aliasRecords[i].target = "CloudFront"
         /\ aliasRecords[i].zone = props.hostedZone.v

\* a hosted zone without a domainName: the record is declared all the same
C4_Witness ==
  /\ pc = "done"
  /\ props.hostedZone.t = "object"
  /\ ~Truthy(props.domainName)
  /\ Len(aliasRecords) = 1

(* ---------------- C5 ---------------- *)
\* C5: once the quota check has run, the constructor has thrown exactly when
\* the subdirectories outnumber the maximum it computed from the properties,
\* whatever certificate, hostedZone, subDomain and domainName are; an error
\* exists only in the thrown state, and the constructor stops nowhere else
\* short of its end.
C5_QuotaIsTheOnlyFailure ==
  /\ (Passed \/ pc = "thrown") =>
       ((pc = "thrown") <=> (NumSubdirectories > maxBehaviors(props).v))
  /\ (error # "") <=> (pc = "thrown")
  /\ pc \notin {"done", "thrown"} => ENABLED Next

\* the throw happens with certificate, zone, subDomain and domainName all supplied
C5_Witness ==
  /\ pc = "thrown"
  /\ props.certificate.t = "object"
  /\ props.hostedZone.t = "object"
  /\ Truthy(props.subDomain)
  /\ Truthy(props.domainName)

(* ---------------- C6 ---------------- *)
\* C6: the declared distribution carries the supplied certificate when it is
\* a certificate object, and no certificate when it is a string or absent.
C6_CertificateOnlyFromObject ==
  distribution.declared =>
    distribution.certificate =
      IF props.certificate.t = "object" THEN props.certificate ELSE Undefined

\* a certificate given as a non-empty string, dropped from the distribution
C6_Witness ==
  /\ distribution.declared
  /\ props.certificate = Str("arn:aws:acm:cert")
  /\ distribution.certificate = Undefined

(* ---------------- C7 ---------------- *)
\* C7: siteDomainName is undefined for an absent or empty domainName,
\* '<subDomain>.<domainName>' for a non-empty subDomain, and domainName
\* itself for an absent or empty subDomain; the distribution's domainNames
\* is that single name, or unset when it is undefined.
C7_SiteDomainName ==
  LET expected ==
        IF props.domainName.t = "undefined" \/ props.domainName.v = ""
          THEN Undefined
          ELSE IF props.subDomain.t = "string" /\ props.subDomain.v # ""
                 THEN Str(props.subDomain.v \o "." \o props.domainName.v)
                 ELSE Str(props.domainName.v)
  IN /\ siteDomainName(props) = expected
     /\ distribution.declared =>
          distribution.domainNames =
            IF expected = Undefined THEN <<>> ELSE <<expected.v>>

\* a domainName without subDomain: the bare domain name on the distribution
C7_Witness ==
  /\ distribution.declared
  /\ props.domainName = Str("example.com")
  /\ props.subDomain = Undefined
  /\ distribution.domainNames = <<"example.com">>

(* ---------------- C8 ---------------- *)
\* C8: the quota of the check is the supplied maxBehaviors, 0 included, and
\* 25 when none is supplied; the constructor has thrown exactly when the
\* number of subdirectories alone is greater than that quota, so that an
\* equal count passes, and the error names the quota.
C8_QuotaDefaultAndComparison ==
  LET quota == IF props.maxBehaviors = Undefined THEN 25 ELSE props.maxBehaviors.v
  IN /\ (Passed \/ pc = "thrown") =>
          ((pc = "thrown") <=> (NumSubdirectories > quota))
     /\ (Passed /\ props.maxBehaviors = Num(0)) => NumSubdirectories = 0
     /\ pc = "thrown" =>
          error = "CloudFront distributions can only have up to "
                    \o ToString(quota) \o " behaviors."

\* 25 subdirectories and a file under the default quota: the declaration completes
C8_Witness ==
  /\ pc = "done"
  /\ props.maxBehaviors = Undefined
  /\ NumSubdirectories = 25
  /\ Len(staticEntries) > 25
  /\ Len(behaviors) = 25

(* ---------------- C9 ---------------- *)
\* C9: a completed declaration holds exactly one distribution-URL parameter,
\* named after the stack, and exactly the outputs CloudFrontURL and
\* CloudFrontID, and the CloudFrontURL output is 'https://' followed by the
\* value of the parameter.
C9_OutputsAndParameterAgree ==
  pc = "done" =>
    /\ Len(parameters) = 1
    /\ Declared("DistributionUrlParameter") = 1
    /\ parameters[1].parameterName = "/" \o stackName \o "/distribution/url"
    /\ Len(outputs) = 2
    /\ {outputs[i].id : i \in DOMAIN outputs} = {"CloudFrontURL", "CloudFrontID"}
    /\ \A i \in DOMAIN outputs :
         /\ outputs[i].id = "CloudFrontURL" =>
              outputs[i].value = "https://" \o parameters[1].stringValue
         /\ outputs[i].id = "CloudFrontID" => outputs[i].value = DistributionId

\* a completed declaration whose URL carries a subDomain
C9_Witness ==
  /\ pc = "done"
  /\ props.subDomain = Str("www")
  /\ props.domainName = Str("example.com")
  /\ parameters[1].stringValue = "www.example.com"

(* ---------------- C10 ---------------- *)
\* C10 as stated: in a completed declaration an alias record implies a custom
\* domain on the distribution, and a custom domain implies a certificate.
C10_DomainConfigurationConsistent ==
  pc = "done" =>
    /\ aliasRecords # <<>> => distribution.domainNames # <<>>
    /\ distribution.domainNames # <<>> => distribution.certificate # Undefined

\* C10, amended: in a completed declaration an alias record together with a
\* non-empty domainName implies the custom domain on the distribution, and a
\* custom domain together with a supplied certificate object implies that
\* certificate on the distribution.
C10_ConsistentWhenAllSupplied ==
  pc = "done" =>
    /\ (aliasRecords # <<>> /\ Truthy(props.domainName)) =>
         distribution.domainNames # <<>>
    /\ (distribution.domainNames # <<>> /\ props.certificate.t = "object") =>
         distribution.certificate = props.certificate

\* zone, bare domainName and certificate object supplied: record, domain and certificate
C10_Witness ==
  /\ pc = "done"
  /\ aliasRecords # <<>>
  /\ props.subDomain = Undefined
  /\ distribution.domainNames = <<"example.com">>
  /\ distribution.certificate.t = "object"
====
